---- MODULE Spec2Model ----
(***************************************************************************)
(* A model of the libdns provider for PowerDNS: Provider.GetRecords,       *)
(* AppendRecords, SetRecords and DeleteRecords with the helpers they call  *)
(* (convertNamesToAbsolute, makeLDRecHash, findRRset, rrsetContents,       *)
(* mergeContents, removeContents), run against a zone held by the          *)
(* PowerDNS server.                                                        *)
(*                                                                         *)
(* A Go string is a sequence of one-character strings, so that suffix      *)
(* tests, trimming and concatenation are computed and not assumed.         *)
(***************************************************************************)
EXTENDS Integers, Sequences, FiniteSets, TLC

VARIABLES
    zone,   \* the server's zone: the sequence of RRsets Zones.Get returns
    c,      \* Provider.c: nil until client() has built the client
    call,   \* per caller: the AppendRecords/SetRecords/DeleteRecords/GetRecords call in progress
    last,   \* per caller: what the caller's previous call was and how it ended
    ncalls, \* number of calls started so far
    mu,     \* Provider.mu: "free" or the caller that holds it
    cpc,    \* per caller: where it stands in Provider.client
    built,  \* number of clients newClient has constructed
    handle, \* per caller: the client Provider.client returned to it last
    arg,    \* the input of the function studied: a binding, a record list, or
            \* the zone a round trip of calls starts from
    res     \* the result of the conversion of arg

vars == <<zone, c, call, last, ncalls, mu, cpc, built, handle, arg, res>>

\* what the operations on records leave alone
convVars == <<arg, res>>
lockVars == <<mu, cpc, built, handle>>

----------------------------------------------------------------------------
(* Bounds of the model. *)

\* longest record list handed to one call
MaxRecs == 2
\* longest content list of an RRset of the initial zone
MaxExisting == 2
\* number of calls a caller makes in one behaviour
MaxCalls == 2

Procs == {"p1", "p2"}
\* the callers of the sequential specification
SeqProcs == {"p1"}

ZoneName == <<"z", ".">>
RelNames == {<<"1">>, <<"2">>}
Types == {<<"N", "S">>}
\* "a" and "a." share a canonical key, "a.." (key "a.") shares it with neither
Data == {<<"a">>, <<"a", ".">>, <<"a", ".", ".">>}
\* time.Duration values are counted in milliseconds
Second == 1000
InputTTLs == {1 * Second, 2 * Second + 500}
\* TTLs (seconds) of the RRsets of the initial zone
InitTTLs == {3}

\* libdns.RR values handed to the provider
InputRecords == [Name : RelNames, Type : Types, Data : Data, TTL : InputTTLs]

SeqsUpTo(S, n) == UNION {[1..k -> S] : k \in 0..n}
InputLists == SeqsUpTo(InputRecords, MaxRecs)

Range(s) == {s[i] : i \in 1..Len(s)}

----------------------------------------------------------------------------
(* strings *)

HasSuffix(s, suffix) ==
    /\ Len(s) >= Len(suffix)
    /\ SubSeq(s, Len(s) - Len(suffix) + 1, Len(s)) = suffix

TrimSuffix(s, suffix) ==
    IF HasSuffix(s, suffix) THEN SubSeq(s, 1, Len(s) - Len(suffix)) ELSE s

\* libdns.AbsoluteName
AbsoluteName(name, zoneName) ==
    IF zoneName = <<>> THEN TrimSuffix(name, <<".">>)
    ELSE IF name = <<>> \/ name = <<"@">> THEN zoneName
    ELSE IF HasSuffix(name, <<".">>) THEN name \o zoneName
    ELSE name \o <<".">> \o zoneName

\* libdns.RelativeName
RelativeName(fqdn, zoneName) ==
    LET f == TrimSuffix(fqdn, <<".">>)
        z == TrimSuffix(zoneName, <<".">>)
        rel == TrimSuffix(TrimSuffix(f, z), <<".">>)
    IN  IF rel = <<>> THEN <<"@">> ELSE rel

\* uint32(d.Seconds()) for a duration of 0 s up to 2^32 s: the whole seconds
Uint32Seconds(d) == d \div Second

----------------------------------------------------------------------------
(* client.go helpers *)

\* txtsanitize.TXTSanitize: content that starts and ends with '"' is kept,
\* anything else is wrapped in quotes with its quotes escaped
RECURSIVE EscapeQuotes(_)
EscapeQuotes(s) ==
    IF s = <<>> THEN <<>>
    ELSE IF Head(s) = "\"" THEN <<"\\", "\"">> \o EscapeQuotes(Tail(s))
    ELSE <<Head(s)>> \o EscapeQuotes(Tail(s))

TXTSanitize(s) ==
    IF Len(s) >= 2 /\ s[1] = "\"" /\ s[Len(s)] = "\"" THEN s
    ELSE <<"\"">> \o EscapeQuotes(s) \o <<"\"">>

key(name, rrType) == name \o <<":">> \o rrType

\* faulty variant: every record is a group of its own
makeLDRecHashPerRecord(records) ==
    [k \in {key(records[i].Name, records[i].Type) \o <<":">> \o records[i].Data :
                i \in 1..Len(records)} |->
        SelectSeq(records, LAMBDA r : key(r.Name, r.Type) \o <<":">> \o r.Data = k)]

\* inHash[k] = append(inHash[k], r) for each r in order
makeLDRecHash(records) ==
    [k \in {key(records[i].Name, records[i].Type) : i \in 1..Len(records)} |->
        SelectSeq(records, LAMBDA r : key(r.Name, r.Type) = k)]

----------------------------------------------------------------------------
(* Service bindings (libdns.ServiceBinding): svcbToRr and paramsToString.   *)
(* A binding is a record with the fields Name, TTL, Scheme, URLSchemePort,  *)
(* Priority, Target and Params (a function from keys to value lists: the Go *)
(* map), and Range, the order in which ranging over Params yields its keys  *)
(* (unspecified in Go, so every order occurs among the inputs).             *)

Digits == <<"0", "1", "2", "3", "4", "5", "6", "7", "8", "9">>

\* fmt's %d of a non-negative integer
RECURSIVE Itoa(_)
Itoa(n) ==
    IF n < 10 THEN <<Digits[n + 1]>>
    ELSE Itoa(n \div 10) \o <<Digits[(n % 10) + 1]>>

\* strings.ContainsAny(s, chars)
ContainsAny(s, chars) == \E i \in 1..Len(s) : s[i] \in chars

\* strings.ReplaceAll(s, old, new) for a one-character old
RECURSIVE ReplaceAll(_, _, _)
ReplaceAll(s, old, new) ==
    IF s = <<>> THEN <<>>
    ELSE (IF Head(s) = old THEN new ELSE <<Head(s)>>) \o ReplaceAll(Tail(s), old, new)

\* the loop over vals that writes them to the builder, from index i on
RECURSIVE writeVals(_, _)
writeVals(vals, i) ==
    IF i > Len(vals) THEN <<>>
    ELSE LET val == ReplaceAll(ReplaceAll(vals[i], "\"", <<"\\", "\"">>), ",", <<"\\", ",">>)
         IN  (IF i > 1 THEN <<",">> ELSE <<>>) \o val \o writeVals(vals, i + 1)

\* faulty variant: the value list of ech is quoted only when a value asks for it
writeParamPlainEch(sb, pkey, vals) ==
    LET hasVal == \E i \in 1..Len(vals) : Len(vals[i]) > 0
        needsQuotes == \E i \in 1..Len(vals) : ContainsAny(vals[i], {"\"", " "})
    IN  sb \o (IF Len(sb) > 0 THEN <<" ">> ELSE <<>>)
           \o pkey
           \o (IF hasVal THEN <<"=">> ELSE <<>>)
           \o (IF needsQuotes THEN <<"\"">> ELSE <<>>)
           \o writeVals(vals, 1)
           \o (IF needsQuotes THEN <<"\"">> ELSE <<>>)

\* one iteration of the range over params: the builder sb after the key pkey and vals
writeParam(sb, pkey, vals) ==
    LET hasVal == \E i \in 1..Len(vals) : Len(vals[i]) > 0
        needsQuotes == \/ pkey = <<"e", "c", "h">>
                       \/ \E i \in 1..Len(vals) : ContainsAny(vals[i], {"\"", " "})
    IN  sb \o (IF Len(sb) > 0 THEN <<" ">> ELSE <<>>)
           \o pkey
           \o (IF hasVal THEN <<"=">> ELSE <<>>)
           \o (IF needsQuotes THEN <<"\"">> ELSE <<>>)
           \o writeVals(vals, 1)
           \o (IF needsQuotes THEN <<"\"">> ELSE <<>>)

RECURSIVE writeParams(_, _, _)
writeParams(sb, params, order) ==
    IF order = <<>> THEN sb
    ELSE writeParams(writeParam(sb, Head(order), params[Head(order)]), params, Tail(order))

paramsToString(params, order) == writeParams(<<>>, params, order)

HTTPSchemes ==
    {<<"h", "t", "t", "p", "s">>, <<"h", "t", "t", "p">>, <<"w", "s", "s">>, <<"w", "s">>}

\* faulty variant: the params of an alias-mode binding are written out
svcbToRrKeepParams(s) ==
    LET http == s.Scheme \in HTTPSchemes
        port == IF http /\ (s.URLSchemePort = 443 \/ s.URLSchemePort = 80)
                THEN 0 ELSE s.URLSchemePort
        name0 == IF http THEN s.Name ELSE <<"_">> \o s.Scheme \o <<".">> \o s.Name
        name == IF port # 0 THEN <<"_">> \o Itoa(port) \o <<".">> \o name0 ELSE name0
    IN  [Name |-> name,
         TTL  |-> s.TTL,
         Type |-> IF http THEN <<"H", "T", "T", "P", "S">> ELSE <<"S", "V", "C", "B">>,
         Data |-> Itoa(s.Priority) \o <<" ">> \o s.Target \o <<" ">>
                    \o paramsToString(s.Params, s.Range)]

svcbToRr(s) ==
    LET http == s.Scheme \in HTTPSchemes
        port == IF http /\ (s.URLSchemePort = 443 \/ s.URLSchemePort = 80)
                THEN 0 ELSE s.URLSchemePort
        name0 == IF http THEN s.Name ELSE <<"_">> \o s.Scheme \o <<".">> \o s.Name
        name == IF port # 0 THEN <<"_">> \o Itoa(port) \o <<".">> \o name0 ELSE name0
        params == IF s.Priority = 0 /\ DOMAIN s.Params # {}
                  THEN <<>> ELSE paramsToString(s.Params, s.Range)
    IN  [Name |-> name,
         TTL  |-> s.TTL,
         Type |-> IF http THEN <<"H", "T", "T", "P", "S">> ELSE <<"S", "V", "C", "B">>,
         Data |-> Itoa(s.Priority) \o <<" ">> \o s.Target \o <<" ">> \o params]

\* r.(libdns.ServiceBinding): the record is a service binding
IsServiceBinding(r) == "Scheme" \in DOMAIN r

\* faulty variant: the data of TXT records is passed on as given
convertNamesToAbsoluteRaw(zoneName, records) ==
    [i \in 1..Len(records) |->
        LET r == IF IsServiceBinding(records[i]) THEN svcbToRr(records[i]) ELSE records[i]
            abs == AbsoluteName(r.Name, zoneName)
            name == IF HasSuffix(abs, <<".">>) THEN abs ELSE abs \o <<".">>
        IN  [Name |-> name, Type |-> r.Type, Data |-> r.Data, TTL |-> r.TTL]]

convertNamesToAbsolute(zoneName, records) ==
    [i \in 1..Len(records) |->
        LET r == IF IsServiceBinding(records[i]) THEN svcbToRr(records[i]) ELSE records[i]
            abs == AbsoluteName(r.Name, zoneName)
            name == IF HasSuffix(abs, <<".">>) THEN abs ELSE abs \o <<".">>
        IN  [Name |-> name,
             Type |-> r.Type,
             Data |-> IF r.Type = <<"T", "X", "T">> THEN TXTSanitize(r.Data) ELSE r.Data,
             TTL  |-> r.TTL]]

----------------------------------------------------------------------------
\* index of the first RRset of the zone with this name and type, 0 for nil
findRRset(z, name, rrType) ==
    LET m == {i \in 1..Len(z) : z[i].Name = name /\ z[i].Type = rrType}
    IN  IF m = {} THEN 0 ELSE CHOOSE i \in m : \A j \in m : i <= j

\* the contents of the RRset findRRset found, none for nil
rrsetContents(z, idx) == IF idx = 0 THEN <<>> ELSE z[idx].Records

\* one loop of mergeContents: append the contents not seen yet
RECURSIVE mergeLoop(_, _, _)
mergeLoop(cs, seen, result) ==
    IF cs = <<>> THEN [seen |-> seen, result |-> result]
    ELSE LET normalized == TrimSuffix(Head(cs), <<".">>)
         IN  IF normalized \notin seen
             THEN mergeLoop(Tail(cs), seen \cup {normalized}, Append(result, Head(cs)))
             ELSE mergeLoop(Tail(cs), seen, result)

\* one loop of a merge that compares the strings as they are
RECURSIVE mergeLoopExact(_, _, _)
mergeLoopExact(cs, seen, result) ==
    IF cs = <<>> THEN [seen |-> seen, result |-> result]
    ELSE IF Head(cs) \notin seen
         THEN mergeLoopExact(Tail(cs), seen \cup {Head(cs)}, Append(result, Head(cs)))
         ELSE mergeLoopExact(Tail(cs), seen, result)

\* faulty variant: duplicates are found by comparing the strings, trailing "." included
mergeContentsExact(existing, new) ==
    LET first == mergeLoopExact(existing, {}, <<>>)
    IN  mergeLoopExact(new, first.seen, first.result).result

\* faulty variant: nothing is deduplicated
mergeContentsKeepAll(existing, new) == existing \o new

\* faulty variant: the new contents are checked against the existing ones only
mergeContentsNewUnchecked(existing, new) ==
    LET first == mergeLoop(existing, {}, <<>>)
    IN  first.result \o SelectSeq(new, LAMBDA x : TrimSuffix(x, <<".">>) \notin first.seen)

mergeContents(existing, new) ==
    LET first == mergeLoop(existing, {}, <<>>)
    IN  mergeLoop(new, first.seen, first.result).result

\* faulty variant: contents are matched by comparing the strings, trailing "." included
removeContentsExact(existing, toRemove) ==
    SelectSeq(existing, LAMBDA x : x \notin Range(toRemove))

removeContents(existing, toRemove) ==
    LET remove == {TrimSuffix(toRemove[i], <<".">>) : i \in 1..Len(toRemove)}
    IN  SelectSeq(existing, LAMBDA x : TrimSuffix(x, <<".">>) \notin remove)

\* the Data of the records of one group, in order
groupContents(recs) == [i \in 1..Len(recs) |-> recs[i].Data]

----------------------------------------------------------------------------
(* The PowerDNS server behind Records.Change, Records.Delete and Zones.Get. *)

RRset(name, rrType, ttl, contents) ==
    [Name |-> name, Type |-> rrType, TTL |-> ttl, Records |-> contents]

\* Records.Change: create or replace the RRset of (name, rrType)
gatewayChange(z, name, rrType, ttl, contents) ==
    LET idx == findRRset(z, name, rrType)
    IN  IF idx = 0 THEN Append(z, RRset(name, rrType, ttl, contents))
        ELSE [z EXCEPT ![idx] = RRset(name, rrType, ttl, contents)]

\* Records.Delete: remove the RRset of (name, rrType)
gatewayDelete(z, name, rrType) ==
    SelectSeq(z, LAMBDA s : ~(s.Name = name /\ s.Type = rrType))

----------------------------------------------------------------------------
(* State *)

IdleCall ==
    [op       |-> "none",  \* "get", "append", "set" or "delete"
     status   |-> "idle",  \* "idle", "loop" (ranging over recHash) or "done" (returned)
     records  |-> <<>>,    \* the records argument
     zone0    |-> <<>>,    \* the server's zone when the call began
     fetches  |-> 0,       \* number of getZone calls made
     fullZone |-> <<>>,    \* what getZone returned
     recHash  |-> <<>>,    \* makeLDRecHash(absRecords)
     pending  |-> {},      \* keys of recHash the range loop has not visited yet
     writes   |-> <<>>,    \* the Records.Change / Records.Delete requests sent, in order
     err      |-> "nil",   \* the error returned: "nil", "fetch" or "write"
     ret      |-> <<>>]    \* the records returned

NoCall == [op |-> "none", records |-> <<>>, err |-> "nil"]

Summary(cl) == [op |-> cl.op, records |-> cl.records, err |-> cl.err]

\* the zones the server may hold when the provider is first used: each name has
\* no RRset or one with a TTL of InitTTLs and 1..MaxExisting contents
InitRRsetChoices(name, rrType) ==
    {<<>>} \cup
    {<<RRset(AbsoluteName(name, ZoneName), rrType, ttl, cs)>> :
        ttl \in InitTTLs, cs \in SeqsUpTo(Data, MaxExisting) \ {<<>>}}

InitZones ==
    {a \o b : a \in InitRRsetChoices(<<"1">>, <<"N", "S">>),
              b \in InitRRsetChoices(<<"2">>, <<"N", "S">>)}

\* a *client: nil, or the n-th client newClient constructed
NilClient == <<>>
newClient(n) == <<"client", n>>

\* no caller is in Provider.client and no conversion has been applied
InitRest ==
    /\ c = NilClient
    /\ call = [p \in Procs |-> IdleCall]
    /\ last = [p \in Procs |-> NoCall]
    /\ ncalls = 0
    /\ mu = "free"
    /\ cpc = [p \in Procs |-> "out"]
    /\ built = 0
    /\ handle = [p \in Procs |-> NilClient]
    /\ arg = <<>>
    /\ res = <<>>

Init ==
    /\ zone \in InitZones
    /\ InitRest

\* Provider.client run without interruption: build the client on first use
client(pc) == IF pc = NilClient THEN newClient(1) ELSE pc

\* a caller starts a call when it has none in progress, and makes no further
\* call once one has returned an error
CanStart(p) ==
    /\ call[p].status \in {"idle", "done"}
    /\ call[p].err = "nil"
    /\ ncalls < MaxCalls

\* the record lists a caller passes: any list on its first call, the same list
\* again on a later one
ArgChoices(p) == IF call[p].status = "idle" THEN InputLists ELSE {call[p].records}

Begin(p, op, records) ==
    [IdleCall EXCEPT !.op = op, !.records = records, !.zone0 = zone]

Started(p, cl) ==
    /\ call' = [call EXCEPT ![p] = cl]
    /\ last' = [last EXCEPT ![p] = Summary(call[p])]
    /\ ncalls' = ncalls + 1
    /\ c' = client(c)
    /\ built' = IF c = NilClient THEN built + 1 ELSE built
    /\ handle' = [handle EXCEPT ![p] = client(c)]
    /\ UNCHANGED <<mu, cpc, convVars>>

\* the call has called getZone
Fetched(cl) == [cl EXCEPT !.fetches = @ + 1]

Failed(cl, err) == [cl EXCEPT !.status = "done", !.err = err, !.ret = <<>>]

Looping(cl, fullZone, absRecords) ==
    LET recHash == makeLDRecHash(absRecords)
    IN  [cl EXCEPT !.status = "loop", !.fullZone = fullZone,
                   !.recHash = recHash, !.pending = DOMAIN recHash]

ChangeReq(name, rrType, ttl, contents, ok) ==
    [kind |-> "change", Name |-> name, Type |-> rrType, TTL |-> ttl,
     Records |-> contents, ok |-> ok]

DeleteReq(name, rrType, ok) ==
    [kind |-> "delete", Name |-> name, Type |-> rrType, TTL |-> 0,
     Records |-> <<>>, ok |-> ok]

\* the server applies a request that succeeds
Apply(z, req) ==
    IF ~req.ok THEN z
    ELSE IF req.kind = "change"
         THEN gatewayChange(z, req.Name, req.Type, req.TTL, req.Records)
         ELSE gatewayDelete(z, req.Name, req.Type)

\* faulty variant: an error of a request is noted and the loop goes on
SentContinue(p, k, req) ==
    /\ zone' = Apply(zone, req)
    /\ call' = [call EXCEPT ![p] =
            [@ EXCEPT !.writes = Append(@, req), !.pending = @ \ {k},
                      !.err = IF req.ok THEN @ ELSE "write"]]
    /\ UNCHANGED <<c, last, ncalls, lockVars, convVars>>

\* the loop body sent req for key k: on an error the call returns it
Sent(p, k, req) ==
    /\ zone' = Apply(zone, req)
    /\ call' = [call EXCEPT ![p] =
            LET cl == [@ EXCEPT !.writes = Append(@, req), !.pending = @ \ {k}]
            IN  IF req.ok THEN cl ELSE Failed(cl, "write")]
    /\ UNCHANGED <<c, last, ncalls, lockVars, convVars>>

\* the loop body skipped key k
Skipped(p, k) ==
    /\ call' = [call EXCEPT ![p].pending = @ \ {k}]
    /\ UNCHANGED <<zone, c, last, ncalls, lockVars, convVars>>

----------------------------------------------------------------------------
(* Provider.GetRecords *)

RECURSIVE zoneRecords(_)
zoneRecords(z) ==
    IF z = <<>> THEN <<>>
    ELSE LET rrset == Head(z)
         IN  [i \in 1..Len(rrset.Records) |->
                 [Name |-> RelativeName(rrset.Name, ZoneName),
                  Type |-> rrset.Type,
                  Data |-> rrset.Records[i],
                  TTL  |-> Second * rrset.TTL]]
             \o zoneRecords(Tail(z))

GetRecords(p) ==
    /\ CanStart(p)
    /\ \E ok \in BOOLEAN :
        LET cl == Fetched(Begin(p, "get", <<>>))
        IN  Started(p, IF ok THEN [cl EXCEPT !.status = "done", !.fullZone = zone,
                                             !.ret = zoneRecords(zone)]
                       ELSE Failed(cl, "fetch"))
    /\ UNCHANGED zone

----------------------------------------------------------------------------
(* Provider.AppendRecords *)

\* AppendRecords called with one of the record lists in lists
AppendRecordsWith(p, lists) ==
    /\ CanStart(p)
    /\ \E records \in lists, ok \in BOOLEAN :
        LET cl == Fetched(Begin(p, "append", records))
        IN  Started(p, IF ok THEN Looping(cl, zone, convertNamesToAbsolute(ZoneName, records))
                       ELSE Failed(cl, "fetch"))
    /\ UNCHANGED zone

AppendRecords(p) == AppendRecordsWith(p, ArgChoices(p))

\* faulty variant: the existing RRset is looked up by type alone and the request
\* is addressed to the RRset found
appendRequestByType(fullZone, recs, ok) ==
    LET rrType == recs[1].Type
        ttl == Uint32Seconds(recs[1].TTL)
        newContents == groupContents(recs)
        found == {i \in 1..Len(fullZone) : fullZone[i].Type = rrType}
        existingRRset == IF found = {} THEN 0
                         ELSE CHOOSE i \in found : \A j \in found : i <= j
        name == IF existingRRset = 0 THEN recs[1].Name ELSE fullZone[existingRRset].Name
        existingContents == rrsetContents(fullZone, existingRRset)
        mergedContents == mergeContents(existingContents, newContents)
    IN  ChangeReq(name, rrType, ttl, mergedContents, ok)

\* faulty variant: the TTL written is that of the group's last record
appendRequestLastTTL(fullZone, recs, ok) ==
    LET name == recs[1].Name
        rrType == recs[1].Type
        ttl == Uint32Seconds(recs[Len(recs)].TTL)
        newContents == groupContents(recs)
        existingRRset == findRRset(fullZone, name, rrType)
        existingContents == rrsetContents(fullZone, existingRRset)
        mergedContents == mergeContents(existingContents, newContents)
    IN  ChangeReq(name, rrType, ttl, mergedContents, ok)

\* the Records.Change request of the group recs
appendRequest(fullZone, recs, ok) ==
    LET name == recs[1].Name
        rrType == recs[1].Type
        ttl == Uint32Seconds(recs[1].TTL)
        newContents == groupContents(recs)
        existingRRset == findRRset(fullZone, name, rrType)
        existingContents == rrsetContents(fullZone, existingRRset)
        mergedContents == mergeContents(existingContents, newContents)
    IN  ChangeReq(name, rrType, ttl, mergedContents, ok)

\* faulty variant: the group is merged with the zone as it is when the request
\* is sent
AppendGroupOnCurrentZone(p) ==
    /\ call[p].status = "loop" /\ call[p].op = "append"
    /\ \E k \in call[p].pending :
        LET recs == call[p].recHash[k]
        IN  IF Len(recs) = 0 THEN Skipped(p, k)
            ELSE \E ok \in BOOLEAN : Sent(p, k, appendRequest(zone, recs, ok))

AppendGroup(p) ==
    /\ call[p].status = "loop" /\ call[p].op = "append"
    /\ \E k \in call[p].pending :
        LET recs == call[p].recHash[k]
        IN  IF Len(recs) = 0 THEN Skipped(p, k)
            ELSE \E ok \in BOOLEAN : Sent(p, k, appendRequest(call[p].fullZone, recs, ok))

----------------------------------------------------------------------------
(* Provider.SetRecords *)

SetRecords(p) ==
    /\ CanStart(p)
    /\ \E records \in ArgChoices(p) :
        Started(p, Looping(Begin(p, "set", records), <<>>,
                           convertNamesToAbsolute(ZoneName, records)))
    /\ UNCHANGED zone

setRequest(recs, ok) ==
    LET name == recs[1].Name
        rrType == recs[1].Type
        ttl == Uint32Seconds(recs[1].TTL)
        contents == groupContents(recs)
    IN  ChangeReq(name, rrType, ttl, contents, ok)

\* faulty variant: the group is merged into the RRset the server holds
SetGroupMerging(p) ==
    /\ call[p].status = "loop" /\ call[p].op = "set"
    /\ \E k \in call[p].pending :
        LET recs == call[p].recHash[k]
        IN  IF Len(recs) = 0 THEN Skipped(p, k)
            ELSE \E ok \in BOOLEAN : Sent(p, k, appendRequest(zone, recs, ok))

SetGroup(p) ==
    /\ call[p].status = "loop" /\ call[p].op = "set"
    /\ \E k \in call[p].pending :
        LET recs == call[p].recHash[k]
        IN  IF Len(recs) = 0 THEN Skipped(p, k)
            ELSE \E ok \in BOOLEAN : Sent(p, k, setRequest(recs, ok))

----------------------------------------------------------------------------
(* Provider.DeleteRecords *)

\* faulty variant: the zone fetched by the caller's previous call is used again
DeleteRecordsCached(p) ==
    /\ CanStart(p)
    /\ \E records \in ArgChoices(p), ok \in BOOLEAN :
        LET cl == Fetched(Begin(p, "delete", records))
            fullZone == IF call[p].op \in {"append", "delete"} /\ call[p].err = "nil"
                        THEN call[p].fullZone ELSE zone
        IN  Started(p, IF ok THEN Looping(cl, fullZone,
                                          convertNamesToAbsolute(ZoneName, records))
                       ELSE Failed(cl, "fetch"))
    /\ UNCHANGED zone

DeleteRecords(p) ==
    /\ CanStart(p)
    /\ \E records \in ArgChoices(p), ok \in BOOLEAN :
        LET cl == Fetched(Begin(p, "delete", records))
        IN  Started(p, IF ok THEN Looping(cl, zone, convertNamesToAbsolute(ZoneName, records))
                       ELSE Failed(cl, "fetch"))
    /\ UNCHANGED zone

\* faulty variant: an RRset left without contents is upserted, not deleted
deleteRequestAlwaysChange(fullZone, existingRRset, recs, ok) ==
    LET remainingContents == removeContents(rrsetContents(fullZone, existingRRset),
                                            groupContents(recs))
    IN  ChangeReq(recs[1].Name, recs[1].Type, fullZone[existingRRset].TTL,
                  remainingContents, ok)

\* faulty variant: the upsert of the remaining contents carries the TTL of the input
deleteRequestInputTTL(fullZone, existingRRset, recs, ok) ==
    LET remainingContents == removeContents(rrsetContents(fullZone, existingRRset),
                                            groupContents(recs))
    IN  IF Len(remainingContents) = 0 THEN DeleteReq(recs[1].Name, recs[1].Type, ok)
        ELSE ChangeReq(recs[1].Name, recs[1].Type, Uint32Seconds(recs[1].TTL),
                       remainingContents, ok)

\* the request of the group recs, whose RRset existingRRset exists
deleteRequest(fullZone, existingRRset, recs, ok) ==
    LET name == recs[1].Name
        rrType == recs[1].Type
        toRemove == groupContents(recs)
        existingContents == rrsetContents(fullZone, existingRRset)
        remainingContents == removeContents(existingContents, toRemove)
    IN  IF Len(remainingContents) = 0 THEN DeleteReq(name, rrType, ok)
        ELSE ChangeReq(name, rrType, fullZone[existingRRset].TTL, remainingContents, ok)

\* faulty variant: a group without an RRset makes the call return an error
DeleteGroupFailsOnMissing(p) ==
    /\ call[p].status = "loop" /\ call[p].op = "delete"
    /\ \E k \in call[p].pending :
        LET recs == call[p].recHash[k]
            existingRRset == IF Len(recs) = 0 THEN 0
                             ELSE findRRset(call[p].fullZone, recs[1].Name, recs[1].Type)
        IN  IF existingRRset = 0
            THEN /\ call' = [call EXCEPT ![p] = Failed(@, "write")]
                 /\ UNCHANGED <<zone, c, last, ncalls, lockVars, convVars>>
            ELSE \E ok \in BOOLEAN :
                    Sent(p, k, deleteRequest(call[p].fullZone, existingRRset, recs, ok))

DeleteGroup(p) ==
    /\ call[p].status = "loop" /\ call[p].op = "delete"
    /\ \E k \in call[p].pending :
        LET recs == call[p].recHash[k]
            existingRRset == IF Len(recs) = 0 THEN 0
                             ELSE findRRset(call[p].fullZone, recs[1].Name, recs[1].Type)
        IN  IF existingRRset = 0 THEN Skipped(p, k)
            ELSE \E ok \in BOOLEAN :
                    Sent(p, k, deleteRequest(call[p].fullZone, existingRRset, recs, ok))

----------------------------------------------------------------------------
(* return records, nil: the range loop is over *)

Return(p) ==
    /\ call[p].status = "loop" /\ call[p].pending = {}
    /\ call' = [call EXCEPT ![p].status = "done", ![p].ret = call[p].records]
    /\ UNCHANGED <<zone, c, last, ncalls, lockVars, convVars>>

Next ==
    \E p \in SeqProcs :
        \/ GetRecords(p)
        \/ AppendRecords(p)
        \/ AppendGroup(p)
        \/ SetRecords(p)
        \/ SetGroup(p)
        \/ DeleteRecords(p)
        \/ DeleteGroup(p)
        \/ Return(p)

Spec == Init /\ [][Next]_vars

----------------------------------------------------------------------------
(* Vocabulary of the properties *)

\* the canonical key of a content: one trailing "." stripped
Canon(x) == IF Len(x) > 0 /\ x[Len(x)] = "." THEN SubSeq(x, 1, Len(x) - 1) ELSE x

\* the subsequence of s at the indices in keep, in order
Pick(s, keep) ==
    [n \in 1..Cardinality(keep) |->
        s[CHOOSE i \in keep : Cardinality({j \in keep : j <= i}) = n]]

\* s without the entries whose canonical key occurred earlier in s
FirstOccurrences(s) ==
    Pick(s, {i \in 1..Len(s) : \A j \in 1..(i - 1) : Canon(s[j]) # Canon(s[i])})

\* s without the entries whose canonical key is the key of an entry of gone
Without(s, gone) ==
    Pick(s, {i \in 1..Len(s) : \A j \in 1..Len(gone) : Canon(s[i]) # Canon(gone[j])})

NoCanonDuplicate(s) ==
    \A i, j \in 1..Len(s) : Canon(s[i]) = Canon(s[j]) => i = j

HasRRset(z, name, rrType) ==
    \E i \in 1..Len(z) : z[i].Name = name /\ z[i].Type = rrType

TheRRset(z, name, rrType) ==
    z[CHOOSE i \in 1..Len(z) : z[i].Name = name /\ z[i].Type = rrType]

\* the input records of a call, flattened and with absolute names
AbsOf(records) == convertNamesToAbsolute(ZoneName, records)

\* the contents the absolutized records give for (name, rrType), in input order
GivenFor(records, name, rrType) ==
    LET abs == AbsOf(records)
    IN  Pick([i \in 1..Len(abs) |-> abs[i].Data],
             {i \in 1..Len(abs) : abs[i].Name = name /\ abs[i].Type = rrType})

\* the (name, type) pairs of the absolutized records
PairsOf(records) ==
    LET abs == AbsOf(records)
    IN  {<<abs[i].Name, abs[i].Type>> : i \in 1..Len(abs)}

WritesFor(cl, name, rrType) ==
    {i \in 1..Len(cl.writes) : cl.writes[i].Name = name /\ cl.writes[i].Type = rrType}

Succeeded(cl, op) == cl.op = op /\ cl.status = "done" /\ cl.err = "nil"

----------------------------------------------------------------------------
(* C1: in AppendRecords, the request for a group whose (name, type) has an  *)
(* RRset in the fetched zone is an upsert of the existing contents followed *)
(* by the group's contents, with every entry dropped whose canonical key    *)
(* (one trailing "." stripped) occurred earlier; kept entries keep their    *)
(* string and their order. A call that succeeds has sent it for each such   *)
(* group.                                                                   *)
C1_AppendMergesDeduped ==
    \A p \in Procs :
        call[p].op = "append" =>
            /\ \A i \in 1..Len(call[p].writes) :
                LET w == call[p].writes[i]
                IN  HasRRset(call[p].fullZone, w.Name, w.Type) =>
                        /\ w.kind = "change"
                        /\ w.Records = FirstOccurrences(
                                TheRRset(call[p].fullZone, w.Name, w.Type).Records
                                \o GivenFor(call[p].records, w.Name, w.Type))
            /\ Succeeded(call[p], "append") =>
                \A pr \in PairsOf(call[p].records) :
                    WritesFor(call[p], pr[1], pr[2]) # {}

\* an append to an existing RRset that added a content and dropped a duplicate
C1_Witness ==
    \E p \in Procs :
        /\ Succeeded(call[p], "append")
        /\ \E i \in 1..Len(call[p].writes) :
            LET w == call[p].writes[i]
            IN  /\ HasRRset(call[p].fullZone, w.Name, w.Type)
                /\ LET existing == TheRRset(call[p].fullZone, w.Name, w.Type).Records
                       given == GivenFor(call[p].records, w.Name, w.Type)
                   IN  /\ Len(w.Records) > Len(existing)
                       /\ Len(w.Records) < Len(existing) + Len(given)
                       /\ \E a \in 1..Len(existing), b \in 1..Len(given) :
                            existing[a] # given[b] /\ Canon(existing[a]) = Canon(given[b])

----------------------------------------------------------------------------
(* C2: SetRecords is a full replace. When SetRecords has succeeded, the     *)
(* records GetRecords returns for each (name, type) of the input are        *)
(* exactly the contents the (flattened) input gives for that pair, in input *)
(* order, whatever the zone held before: both for the zone as the call      *)
(* leaves it and for the GetRecords call that follows it.                   *)

\* the contents GetRecords reports for the absolute (name, rrType)
ReportedFor(got, name, rrType) ==
    Pick([i \in 1..Len(got) |-> got[i].Data],
         {i \in 1..Len(got) :
            /\ AbsoluteName(got[i].Name, ZoneName) = name
            /\ got[i].Type = rrType})

C2_SetIsFullReplace ==
    \A p \in Procs :
        /\ Succeeded(call[p], "set") =>
            \A pr \in PairsOf(call[p].records) :
                ReportedFor(zoneRecords(zone), pr[1], pr[2])
                    = GivenFor(call[p].records, pr[1], pr[2])
        /\ (Succeeded(call[p], "get") /\ last[p].op = "set" /\ last[p].err = "nil") =>
            \A pr \in PairsOf(last[p].records) :
                ReportedFor(call[p].ret, pr[1], pr[2])
                    = GivenFor(last[p].records, pr[1], pr[2])

\* a set that replaced an RRset holding a content the input does not give
C2_Witness ==
    \E p \in Procs :
        /\ Succeeded(call[p], "set")
        /\ \E pr \in PairsOf(call[p].records) :
            /\ HasRRset(call[p].zone0, pr[1], pr[2])
            /\ \E x \in Range(TheRRset(call[p].zone0, pr[1], pr[2]).Records) :
                \A y \in Range(GivenFor(call[p].records, pr[1], pr[2])) :
                    Canon(x) # Canon(y)
            /\ Len(GivenFor(call[p].records, pr[1], pr[2])) = 2

----------------------------------------------------------------------------
(* C3: in DeleteRecords, for a group whose (name, type) has an RRset in the *)
(* fetched zone, the contents that remain are the existing contents, in     *)
(* their order and with their strings, whose canonical key is the key of no *)
(* content of the group: an upsert carries exactly these, and a full delete *)
(* is sent only when there are none. A call that succeeds has sent the      *)
(* request for each such group.                                             *)
RemainingFor(cl, name, rrType) ==
    Without(TheRRset(cl.fullZone, name, rrType).Records,
            GivenFor(cl.records, name, rrType))

C3_DeleteRemovesByCanonicalKey ==
    \A p \in Procs :
        call[p].op = "delete" =>
            /\ \A i \in 1..Len(call[p].writes) :
                LET w == call[p].writes[i]
                IN  /\ HasRRset(call[p].fullZone, w.Name, w.Type)
                    /\ w.kind = "change" =>
                            w.Records = RemainingFor(call[p], w.Name, w.Type)
                    /\ w.kind = "delete" =>
                            RemainingFor(call[p], w.Name, w.Type) = <<>>
            /\ Succeeded(call[p], "delete") =>
                \A pr \in PairsOf(call[p].records) :
                    HasRRset(call[p].fullZone, pr[1], pr[2]) =>
                        WritesFor(call[p], pr[1], pr[2]) # {}

\* a delete that kept one content and dropped one that differs from the
\* input's string by its trailing "."
C3_Witness ==
    \E p \in Procs :
        /\ Succeeded(call[p], "delete")
        /\ \E i \in 1..Len(call[p].writes) :
            LET w == call[p].writes[i]
                existing == TheRRset(call[p].fullZone, w.Name, w.Type).Records
                given == GivenFor(call[p].records, w.Name, w.Type)
            IN  /\ w.kind = "change"
                /\ Len(w.Records) = 1 /\ Len(existing) = 2
                /\ \E a \in 1..2 :
                    /\ existing[a] \notin Range(given)
                    /\ existing[a] \notin Range(w.Records)

----------------------------------------------------------------------------
(* C4: DeleteRecords sends a full delete of the RRset exactly when no       *)
(* content remains, and an upsert otherwise; after a delete that removed    *)
(* the last content of a (name, type), GetRecords returns no record of that *)
(* pair.                                                                    *)
C4_DeleteToEmptyRemovesRRset ==
    \A p \in Procs :
        /\ call[p].op = "delete" =>
            /\ \A i \in 1..Len(call[p].writes) :
                LET w == call[p].writes[i]
                IN  /\ w.kind \in {"change", "delete"}
                    /\ w.kind = "delete" <=>
                            RemainingFor(call[p], w.Name, w.Type) = <<>>
            /\ Succeeded(call[p], "delete") =>
                \A pr \in PairsOf(call[p].records) :
                    (/\ HasRRset(call[p].fullZone, pr[1], pr[2])
                     /\ RemainingFor(call[p], pr[1], pr[2]) = <<>>) =>
                        /\ ~HasRRset(zone, pr[1], pr[2])
                        /\ ReportedFor(zoneRecords(zone), pr[1], pr[2]) = <<>>
        /\ (Succeeded(call[p], "get") /\ last[p].op = "delete" /\ last[p].err = "nil") =>
            \A pr \in PairsOf(last[p].records) :
                ReportedFor(call[p].ret, pr[1], pr[2]) = <<>> =>
                    ~HasRRset(call[p].fullZone, pr[1], pr[2])

\* a delete that removed the last contents of an RRset
C4_Witness ==
    \E p \in Procs :
        /\ Succeeded(call[p], "delete")
        /\ \E i \in 1..Len(call[p].writes) :
            LET w == call[p].writes[i]
            IN  /\ w.kind = "delete"
                /\ Len(TheRRset(call[p].fullZone, w.Name, w.Type).Records) = 2
                /\ ~HasRRset(zone, w.Name, w.Type)

----------------------------------------------------------------------------
(* C5: DeleteRecords does not change the TTL of the records that survive:   *)
(* every upsert it sends carries the TTL of the RRset as fetched, whatever  *)
(* TTLs the input records carry.                                            *)
C5_DeleteKeepsTTL ==
    \A p \in Procs :
        call[p].op = "delete" =>
            \A i \in 1..Len(call[p].writes) :
                LET w == call[p].writes[i]
                IN  w.kind = "change" =>
                        w.TTL = TheRRset(call[p].fullZone, w.Name, w.Type).TTL

\* a delete that left contents behind, asked for with records of another TTL,
\* after which the RRset still has the TTL it had
C5_Witness ==
    \E p \in Procs :
        /\ Succeeded(call[p], "delete")
        /\ \E i \in 1..Len(call[p].writes) :
            LET w == call[p].writes[i]
                abs == AbsOf(call[p].records)
            IN  /\ w.kind = "change"
                /\ \A j \in 1..Len(abs) : Uint32Seconds(abs[j].TTL) # w.TTL
                /\ HasRRset(zone, w.Name, w.Type)
                /\ TheRRset(zone, w.Name, w.Type).TTL
                        = TheRRset(call[p].zone0, w.Name, w.Type).TTL

----------------------------------------------------------------------------
(* C6: AppendRecords is idempotent: a successful AppendRecords that repeats *)
(* the record list of the successful AppendRecords before it leaves every   *)
(* RRset with the content list it had after the first.                      *)
ContentLists(z) == [i \in 1..Len(z) |-> <<z[i].Name, z[i].Type, z[i].Records>>]

----------------------------------------------------------------------------
(* C7: in DeleteRecords a group whose (name, type) has no RRset in the      *)
(* fetched zone is skipped: no request is sent for it, it causes no error   *)
(* (an error is returned only for a fetch or a request that failed), and    *)
(* the other groups of the call are still processed.                        *)
C7_DeleteOfMissingIsNoOp ==
    \A p \in Procs :
        call[p].op = "delete" =>
            /\ \A i \in 1..Len(call[p].writes) :
                HasRRset(call[p].fullZone, call[p].writes[i].Name, call[p].writes[i].Type)
            /\ call[p].err = "write" =>
                /\ call[p].writes # <<>>
                /\ ~call[p].writes[Len(call[p].writes)].ok
            /\ call[p].err = "fetch" => call[p].writes = <<>>
            /\ call[p].status = "loop" => call[p].err = "nil"
            /\ (call[p].status = "done" /\ call[p].err = "nil") =>
                /\ call[p].pending = {}
                /\ \A pr \in PairsOf(call[p].records) :
                    HasRRset(call[p].fullZone, pr[1], pr[2]) =>
                        WritesFor(call[p], pr[1], pr[2]) # {}

\* a successful delete of two groups, one without an RRset and one with
C7_Witness ==
    \E p \in Procs :
        /\ Succeeded(call[p], "delete")
        /\ Len(call[p].writes) = 1
        /\ \E pr \in PairsOf(call[p].records) :
            ~HasRRset(call[p].fullZone, pr[1], pr[2])
        /\ \E pr \in PairsOf(call[p].records) :
            /\ HasRRset(call[p].fullZone, pr[1], pr[2])
            /\ WritesFor(call[p], pr[1], pr[2]) # {}

----------------------------------------------------------------------------
(* C8, as claimed: in AppendRecords the request for a group whose (name,    *)
(* type) has no RRset in the fetched zone carries exactly the group's       *)
(* content list, for every input.                                           *)
C8_CreateCarriesGroupList ==
    \A p \in Procs :
        call[p].op = "append" =>
            \A i \in 1..Len(call[p].writes) :
                LET w == call[p].writes[i]
                IN  ~HasRRset(call[p].fullZone, w.Name, w.Type) =>
                        w.Records = GivenFor(call[p].records, w.Name, w.Type)

(* C8, amended: the request for such a group is an upsert of the group's    *)
(* content list without the entries whose canonical key occurred earlier in *)
(* the list; it is the group's list itself exactly when no two entries of   *)
(* the list share a canonical key.                                          *)
C8_CreateCarriesDedupedGroupList ==
    \A p \in Procs :
        call[p].op = "append" =>
            \A i \in 1..Len(call[p].writes) :
                LET w == call[p].writes[i]
                    given == GivenFor(call[p].records, w.Name, w.Type)
                IN  ~HasRRset(call[p].fullZone, w.Name, w.Type) =>
                        /\ w.kind = "change"
                        /\ w.Records = FirstOccurrences(given)
                        /\ (w.Records = given) <=> NoCanonDuplicate(given)

\* an append that created an RRset from a group giving a content with and
\* without its trailing "."
C8_Witness ==
    \E p \in Procs :
        /\ Succeeded(call[p], "append")
        /\ \E i \in 1..Len(call[p].writes) :
            LET w == call[p].writes[i]
                given == GivenFor(call[p].records, w.Name, w.Type)
            IN  /\ ~HasRRset(call[p].fullZone, w.Name, w.Type)
                /\ Len(given) = 2 /\ given[1] # given[2]
                /\ Len(w.Records) = 1
                /\ HasRRset(zone, w.Name, w.Type)

----------------------------------------------------------------------------
(* C9: within one AppendRecords, SetRecords or DeleteRecords call at most   *)
(* one request (upsert or delete) is sent for any (name, type), however     *)
(* many input records the pair has and wherever they stand in the input.    *)
C9_OneWritePerKey ==
    \A p \in Procs :
        \A i, j \in 1..Len(call[p].writes) :
            (/\ call[p].writes[i].Name = call[p].writes[j].Name
             /\ call[p].writes[i].Type = call[p].writes[j].Type) => i = j

\* a call given two records of one pair that has sent its one request
C9_Witness ==
    \E p \in Procs :
        /\ call[p].status = "done" /\ call[p].err = "nil"
        /\ call[p].op \in {"append", "set", "delete"}
        /\ Len(call[p].records) = 2
        /\ Cardinality(PairsOf(call[p].records)) = 1
        /\ Len(call[p].writes) = 1

----------------------------------------------------------------------------
(* C10: the first failure of the gateway ends a mutating call. The call     *)
(* returns the error and no records; a failed fetch is followed by no       *)
(* request, a failed request is the last one the call sends; and the        *)
(* requests that succeeded before it stay applied: the zone is the zone the *)
(* call found with exactly those requests applied.                          *)
RECURSIVE ApplyAll(_, _)
ApplyAll(z, reqs) ==
    IF reqs = <<>> THEN z ELSE ApplyAll(Apply(z, Head(reqs)), Tail(reqs))

C10_FirstFailureEndsCall ==
    \A p \in Procs :
        call[p].op \in {"append", "set", "delete"} =>
            /\ \A i \in 1..Len(call[p].writes) :
                ~call[p].writes[i].ok =>
                    /\ i = Len(call[p].writes)
                    /\ call[p].status = "done" /\ call[p].err = "write"
            /\ call[p].err = "write" =>
                call[p].writes # <<>> /\ ~call[p].writes[Len(call[p].writes)].ok
            /\ call[p].err = "fetch" => call[p].writes = <<>> /\ zone = call[p].zone0
            /\ call[p].err # "nil" =>
                /\ call[p].status = "done"
                /\ call[p].ret = <<>>
                /\ zone = ApplyAll(call[p].zone0, call[p].writes)

\* a call whose second request failed after its first had changed the zone,
\* which still holds that change
C10_Witness ==
    \E p \in Procs :
        /\ call[p].status = "done" /\ call[p].err = "write"
        /\ Len(call[p].writes) = 2
        /\ call[p].writes[1].ok
        /\ zone # call[p].zone0
        /\ zone = Apply(call[p].zone0, call[p].writes[1])

----------------------------------------------------------------------------
(* C11, as claimed: every mutating call (AppendRecords, SetRecords and      *)
(* DeleteRecords) fetches the zone once at its start, before it sends a     *)
(* request, and works on the zone as fetched then.                          *)
Mutating(cl) == cl.op \in {"append", "set", "delete"}

C11_EveryMutationFetches ==
    \A p \in Procs :
        Mutating(call[p]) =>
            /\ call[p].fetches = 1
            /\ call[p].err # "fetch" => call[p].fullZone = call[p].zone0

(* C11, amended: AppendRecords and DeleteRecords fetch the zone once at     *)
(* their start, before they send a request, and work on the zone as it was  *)
(* then, never on what an earlier call fetched; SetRecords fetches nothing  *)
(* and sends its requests without any zone state.                           *)
C11_AppendAndDeleteFetchFresh ==
    \A p \in Procs :
        /\ call[p].op \in {"append", "delete"} =>
            /\ call[p].fetches = 1
            /\ call[p].err # "fetch" => call[p].fullZone = call[p].zone0
            /\ call[p].err = "fetch" =>
                call[p].fullZone = <<>> /\ call[p].writes = <<>>
        /\ call[p].op = "set" =>
            /\ call[p].fetches = 0
            /\ call[p].fullZone = <<>>

\* a delete that follows an append which changed the zone, working on the
\* changed zone
C11_Witness ==
    \E p \in Procs :
        /\ call[p].op = "delete" /\ call[p].writes # <<>>
        /\ last[p].op = "append" /\ last[p].err = "nil"
        /\ call[p].fetches = 1
        /\ call[p].fullZone = call[p].zone0
        /\ call[p].fullZone \notin InitZones

----------------------------------------------------------------------------
(* Provider.client step by step, for callers running concurrently.  cpc is  *)
(* each caller's position inside client(): "out" (not in it), "wait" (at    *)
(* p.mu.Lock()), "check" (holding the mutex, at the nil test), "build" (at  *)
(* newClient) and "return" (at return p.c, the deferred Unlock pending).    *)
MaxClientCalls == 6

InitClient ==
    /\ zone = <<>>
    /\ InitRest

ClientCall(p) ==
    /\ cpc[p] = "out"
    /\ ncalls < MaxClientCalls
    /\ ncalls' = ncalls + 1
    /\ cpc' = [cpc EXCEPT ![p] = "wait"]
    /\ UNCHANGED <<zone, c, call, last, mu, built, handle, convVars>>

\* faulty variant: the mutex is taken without waiting for it to be free
ClientLockUnguarded(p) ==
    /\ cpc[p] = "wait"
    /\ mu' = p
    /\ cpc' = [cpc EXCEPT ![p] = "check"]
    /\ UNCHANGED <<zone, c, call, last, ncalls, built, handle, convVars>>

ClientLock(p) ==
    /\ cpc[p] = "wait"
    /\ mu = "free"
    /\ mu' = p
    /\ cpc' = [cpc EXCEPT ![p] = "check"]
    /\ UNCHANGED <<zone, c, call, last, ncalls, built, handle, convVars>>

ClientCheck(p) ==
    /\ cpc[p] = "check"
    /\ cpc' = [cpc EXCEPT ![p] = IF c = NilClient THEN "build" ELSE "return"]
    /\ UNCHANGED <<zone, c, call, last, ncalls, mu, built, handle, convVars>>

ClientBuild(p) ==
    /\ cpc[p] = "build"
    /\ c' = newClient(built + 1)
    /\ built' = built + 1
    /\ cpc' = [cpc EXCEPT ![p] = "return"]
    /\ UNCHANGED <<zone, call, last, ncalls, mu, handle, convVars>>

ClientReturn(p) ==
    /\ cpc[p] = "return"
    /\ handle' = [handle EXCEPT ![p] = c]
    /\ mu' = "free"
    /\ cpc' = [cpc EXCEPT ![p] = "out"]
    /\ UNCHANGED <<zone, c, call, last, ncalls, built, convVars>>

NextClient ==
    \E p \in Procs :
        \/ ClientCall(p)
        \/ ClientLock(p)
        \/ ClientCheck(p)
        \/ ClientBuild(p)
        \/ ClientReturn(p)

SpecClient == InitClient /\ [][NextClient]_vars

(* C12: for every interleaving of concurrent callers of one Provider,       *)
(* newClient runs at most once, every caller is handed the same client, and *)
(* the nil test and the construction happen only while the caller holds the *)
(* mutex.                                                                   *)
C12_ClientBuiltOnceUnderLock ==
    /\ built <= 1
    /\ (c = NilClient) <=> (built = 0)
    /\ \A p \in Procs :
        /\ handle[p] # NilClient => handle[p] = c
        /\ cpc[p] \in {"check", "build", "return"} => mu = p

\* both callers have been handed the one client, the second of them having
\* found it already built
C12_Witness ==
    /\ built = 1
    /\ \A p \in Procs : handle[p] # NilClient /\ handle[p] = c

----------------------------------------------------------------------------
(* AppendRecords called by two callers of one Provider at the same time:    *)
(* the steps of the two calls (fetch, one request per group, return)        *)
(* interleave freely.                                                       *)
MaxConcRecs == 1

ConcLists == SeqsUpTo(InputRecords, MaxConcRecs)

ConcArgChoices(p) == IF call[p].status = "idle" THEN ConcLists ELSE {call[p].records}

NextConc ==
    \E p \in Procs :
        \/ AppendRecordsWith(p, ConcArgChoices(p))
        \/ AppendGroup(p)
        \/ Return(p)

SpecConc == Init /\ [][NextConc]_vars

\* the RRsets of z, as a set
RRsetsOf(z) == {z[i] : i \in 1..Len(z)}

\* the requests of cl that the server applied
Applied(cl) == {cl.writes[i] : i \in {j \in 1..Len(cl.writes) : cl.writes[j].ok}}

(* C13: the adapter does not coordinate calls on one zone. With two         *)
(* AppendRecords calls running concurrently, every request of a call        *)
(* carries the merge of the group with the zone as that call fetched it at  *)
(* its start, whatever the other call has written since, and the server     *)
(* holds for an RRset exactly what the last upsert for it carried (the      *)
(* upsert of a running call, or what a running call found at its start); so *)
(* a content appended by the other call between the fetch and the write is  *)
(* lost.                                                                    *)
C13_WritesUseOwnFetch ==
    /\ \A p \in Procs :
        call[p].op = "append" =>
            /\ call[p].err # "fetch" => call[p].fullZone = call[p].zone0
            /\ \A i \in 1..Len(call[p].writes) :
                LET w == call[p].writes[i]
                    existing == IF HasRRset(call[p].fullZone, w.Name, w.Type)
                                THEN TheRRset(call[p].fullZone, w.Name, w.Type).Records
                                ELSE <<>>
                IN  /\ w.kind = "change"
                    /\ w.Records = FirstOccurrences(
                            existing \o GivenFor(call[p].records, w.Name, w.Type))
    /\ \A r \in RRsetsOf(zone) :
        LET applied == {w \in UNION {Applied(call[p]) : p \in Procs} :
                            w.Name = r.Name /\ w.Type = r.Type}
        IN  applied # {} =>
                \/ \E w \in applied : w.Records = r.Records
                \/ \E p \in Procs : call[p].op # "none" /\ r \in RRsetsOf(call[p].zone0)

\* a lost update: both calls fetched the same zone, both upserts for the same
\* (name, type) succeeded, and a content one of the calls appended is not in
\* the RRset
C13_Witness ==
    \E p, q \in Procs :
        /\ p # q
        /\ Succeeded(call[p], "append") /\ Succeeded(call[q], "append")
        /\ call[p].fullZone = call[q].fullZone
        /\ \E w \in Applied(call[p]), v \in Applied(call[q]) :
            /\ w.Name = v.Name /\ w.Type = v.Type
            /\ HasRRset(zone, w.Name, w.Type)
            /\ \E x \in Range(GivenFor(call[p].records, w.Name, w.Type)) :
                \A y \in Range(TheRRset(zone, w.Name, w.Type).Records) :
                    Canon(x) # Canon(y)

----------------------------------------------------------------------------
\* the zone z holds the content of the input record rec, by canonical key
Present(z, rec) ==
    LET abs == AbsOf(<<rec>>)[1]
    IN  /\ HasRRset(z, abs.Name, abs.Type)
        /\ \E x \in Range(TheRRset(z, abs.Name, abs.Type).Records) :
                Canon(x) = Canon(abs.Data)

(* C14: DeleteRecords returns the records that were deleted. On success the *)
(* returned list holds exactly the input records whose content was in the   *)
(* zone before the call; a record whose RRset or content did not exist is   *)
(* not reported.                                                            *)
C14_DeleteReturnsDeleted ==
    \A p \in Procs :
        Succeeded(call[p], "delete") =>
            call[p].ret = Pick(call[p].records,
                {i \in 1..Len(call[p].records) : Present(call[p].zone0, call[p].records[i])})

(* C15: AppendRecords returns the records that were added. On success the   *)
(* returned list holds exactly the input records whose content was not in   *)
(* the zone before the call.                                                *)
C15_AppendReturnsAdded ==
    \A p \in Procs :
        Succeeded(call[p], "append") =>
            call[p].ret = Pick(call[p].records,
                {i \in 1..Len(call[p].records) : ~Present(call[p].zone0, call[p].records[i])})

----------------------------------------------------------------------------
(* AppendRecords with TXT records: the data is quoted text ("t"), unquoted  *)
(* text (t, u) or text with a quote inside (u"v), on records of type TXT    *)
(* and, for comparison, of type NS; the zone holds no RRset or the TXT      *)
(* RRset of 1.z. with the content "t".                                      *)
MaxTXTRecs == 2

TXT == <<"T", "X", "T">>

TXTData == {<<"\"", "t", "\"">>, <<"t">>, <<"u">>, <<"u", "\"", "v">>}

TXTRecords == [Name : {<<"1">>}, Type : {TXT, <<"N", "S">>}, Data : TXTData, TTL : {1 * Second}]

TXTLists == SeqsUpTo(TXTRecords, MaxTXTRecs)

TXTArgChoices(p) == IF call[p].status = "idle" THEN TXTLists ELSE {call[p].records}

InitZonesTXT ==
    {<<>>, <<RRset(AbsoluteName(<<"1">>, ZoneName), TXT, 3, << <<"\"", "t", "\"">> >>)>>}

InitTXT ==
    /\ zone \in InitZonesTXT
    /\ InitRest

NextTXT ==
    \E p \in SeqProcs :
        \/ AppendRecordsWith(p, TXTArgChoices(p))
        \/ AppendGroup(p)
        \/ Return(p)

SpecTXT == InitTXT /\ [][NextTXT]_vars

\* the quoted presentation form of the text d
Presentation(d) ==
    IF Len(d) >= 2 /\ d[1] = "\"" /\ d[Len(d)] = "\"" THEN d
    ELSE <<"\"">> \o ReplaceAll(d, "\"", <<"\\", "\"">>) \o <<"\"">>

\* the data of the input records for the absolute (name, rrType), as given
RawFor(records, name, rrType) ==
    Pick([i \in 1..Len(records) |-> records[i].Data],
         {i \in 1..Len(records) :
            /\ AbsoluteName(records[i].Name, ZoneName) = name
            /\ records[i].Type = rrType})

(* C16: TXT content is written in quoted presentation form. In the request *)
(* AppendRecords sends for a TXT group, each content given is passed on     *)
(* unchanged when it starts and ends with '"' and is otherwise wrapped in   *)
(* double quotes with its quotes escaped, and it is merged in that form; in *)
(* the request for a group of another type the data is as given.            *)
C16_TXTWrittenQuoted ==
    \A p \in Procs :
        call[p].op = "append" =>
            \A i \in 1..Len(call[p].writes) :
                LET w == call[p].writes[i]
                    existing == IF HasRRset(call[p].fullZone, w.Name, w.Type)
                                THEN TheRRset(call[p].fullZone, w.Name, w.Type).Records
                                ELSE <<>>
                    raw == RawFor(call[p].records, w.Name, w.Type)
                    given == IF w.Type = TXT
                             THEN [j \in 1..Len(raw) |-> Presentation(raw[j])]
                             ELSE raw
                IN  /\ raw # <<>>
                    /\ w.Records = FirstOccurrences(existing \o given)

\* the unquoted text u appended to the RRset holding "t": the zone holds both
\* "t" and "u"
C16_Witness ==
    \E p \in Procs :
        /\ Succeeded(call[p], "append")
        /\ call[p].zone0 \in InitZonesTXT \ {<<>>}
        /\ Len(call[p].records) = 1
        /\ call[p].records[1].Type = TXT
        /\ call[p].records[1].Data = <<"u">>
        /\ HasRRset(zone, AbsoluteName(<<"1">>, ZoneName), TXT)
        /\ TheRRset(zone, AbsoluteName(<<"1">>, ZoneName), TXT).Records
                = << <<"\"", "t", "\"">>, <<"\"", "u", "\"">> >>

----------------------------------------------------------------------------
(* svcbToRr applied to service bindings: every combination of the schemes,  *)
(* ports, priorities and parameter maps below, with every order of ranging  *)
(* over the map. arg is the binding, res the RR svcbToRr gave for it.        *)
MaxVals == 2

ECH == <<"e", "c", "h">>

Schemes == HTTPSchemes \cup {<<"d", "n", "s">>}
Ports == {0, 80, 443, 8443}
Priorities == {0, 1}
ParamKeys == {ECH, <<"k", "e", "y">>}
ParamValues ==
    {<<>>, <<"a", "s", "d", "f">>, <<"a", " ", "b">>, <<"a", "\"">>, <<"a", ",">>}

ParamMaps == UNION {[ks -> SeqsUpTo(ParamValues, MaxVals)] : ks \in SUBSET ParamKeys}

\* the orders in which a range over a map with the keys S can yield them
Perms(S) == {q \in [1..Cardinality(S) -> S] : Range(q) = S}

\* the binding with these fields
Binding(scheme, port, priority, params, order) ==
    [Name |-> <<"1">>, TTL |-> 1 * Second, Scheme |-> scheme,
     URLSchemePort |-> port, Priority |-> priority,
     Target |-> <<"t", ".">>, Params |-> params, Range |-> order]

InitSvcb ==
    /\ zone = <<>>
    /\ c = NilClient
    /\ call = [p \in Procs |-> IdleCall]
    /\ last = [p \in Procs |-> NoCall]
    /\ ncalls = 0
    /\ mu = "free"
    /\ cpc = [p \in Procs |-> "out"]
    /\ built = 0
    /\ handle = [p \in Procs |-> NilClient]
    /\ \E scheme \in Schemes, port \in Ports, priority \in Priorities, params \in ParamMaps :
        \E order \in Perms(DOMAIN params) :
            arg = Binding(scheme, port, priority, params, order)
    /\ res = <<>>

SvcbToRr ==
    /\ res = <<>>
    /\ res' = svcbToRr(arg)
    /\ UNCHANGED <<zone, c, call, last, ncalls, lockVars, arg>>

NextSvcb == SvcbToRr

SpecSvcb == InitSvcb /\ [][NextSvcb]_vars

Converted == res # <<>>

\* the default port of a scheme, 0 for a scheme without one
DefaultPort(scheme) ==
    IF scheme \in {<<"h", "t", "t", "p", "s">>, <<"w", "s", "s">>} THEN 443
    ELSE IF scheme \in {<<"h", "t", "t", "p">>, <<"w", "s">>} THEN 80
    ELSE 0

\* the owner name before the port prefix
BaseName(s) ==
    IF s.Scheme \in HTTPSchemes THEN s.Name
    ELSE <<"_">> \o s.Scheme \o <<".">> \o s.Name

(* C17: the owner name of a service binding is prefixed with "_<port>."     *)
(* exactly when the port is set and is not the default port of the          *)
(* binding's scheme (443 for https and wss, 80 for http and ws); scheme     *)
(* https with port 443 gives type HTTPS and the name as given.              *)
C17_PortPrefixUnlessSchemeDefault ==
    Converted =>
        /\ res.Name =
            IF arg.URLSchemePort # 0 /\ arg.URLSchemePort # DefaultPort(arg.Scheme)
            THEN <<"_">> \o Itoa(arg.URLSchemePort) \o <<".">> \o BaseName(arg)
            ELSE BaseName(arg)
        /\ (arg.Scheme = <<"h", "t", "t", "p", "s">> /\ arg.URLSchemePort = 443) =>
                res.Type = <<"H", "T", "T", "P", "S">> /\ res.Name = arg.Name

\* what follows "<priority> <target> " in the data
ParamsText ==
    SubSeq(res.Data, Len(Itoa(arg.Priority)) + Len(arg.Target) + 3, Len(res.Data))

(* C18: the data of a service binding with priority 0 and a non-empty       *)
(* params map is "0 <target> " with no parameter in it; with a priority     *)
(* other than 0 it is "<priority> <target> <encoded params>", with one      *)
(* space between the parts even when there are no params.                   *)
C18_AliasModeDropsParams ==
    Converted =>
        /\ (arg.Priority = 0 /\ DOMAIN arg.Params # {}) =>
                res.Data = <<"0", " ">> \o arg.Target \o <<" ">>
        /\ arg.Priority # 0 =>
                /\ res.Data = Itoa(arg.Priority) \o <<" ">> \o arg.Target \o <<" ">>
                                \o paramsToString(arg.Params, arg.Range)
                /\ DOMAIN arg.Params = {} =>
                        res.Data = Itoa(arg.Priority) \o <<" ">> \o arg.Target \o <<" ">>
                /\ \A k \in DOMAIN arg.Params :
                        \E i \in 1..(Len(ParamsText) - Len(k) + 1) :
                            SubSeq(ParamsText, i, i + Len(k) - 1) = k

\* an alias-mode binding with ech=asdf among its params
C18_Witness ==
    /\ Converted
    /\ arg.Priority = 0
    /\ ECH \in DOMAIN arg.Params
    /\ arg.Params[ECH] = << <<"a", "s", "d", "f">> >>
    /\ res.Data = <<"0", " ", "t", ".", " ">>

\* what paramsToString writes for the key k of the binding
Encoded(k) == writeParam(<<>>, k, arg.Params[k])

\* the value list written for k: what follows the key and the "="
ValueText(k) ==
    LET afterKey == SubSeq(Encoded(k), Len(k) + 1, Len(Encoded(k)))
    IN  IF afterKey # <<>> /\ afterKey[1] = "=" THEN Tail(afterKey) ELSE afterKey

Wrapped(v) == Len(v) >= 2 /\ v[1] = "\"" /\ v[Len(v)] = "\""

AllEmpty(vals) == \A i \in 1..Len(vals) : vals[i] = <<>>

(* C19: the value list of a key is wrapped in double quotes exactly when    *)
(* one of its values contains a space or a double quote or the key is ech;  *)
(* a list that needs no quotes is written without any. The data carries the *)
(* encodings of the keys, separated by one space; key=["a b"] gives         *)
(* key="a b".                                                               *)
C19_QuotedWhenNeededOrEch ==
    Converted =>
        /\ \A k \in DOMAIN arg.Params :
            LET needed == \/ k = ECH
                          \/ \E i \in 1..Len(arg.Params[k]) :
                                \E j \in 1..Len(arg.Params[k][i]) :
                                    arg.Params[k][i][j] \in {" ", "\""}
            IN  /\ Wrapped(ValueText(k)) <=> needed
                /\ ~needed => \A j \in 1..Len(ValueText(k)) : ValueText(k)[j] # "\""
        /\ arg.Priority # 0 =>
            /\ Len(arg.Range) = 1 => ParamsText = Encoded(arg.Range[1])
            /\ Len(arg.Range) = 2 =>
                    ParamsText = Encoded(arg.Range[1]) \o <<" ">> \o Encoded(arg.Range[2])
            /\ arg.Params = [k \in {<<"k", "e", "y">>} |-> << <<"a", " ", "b">> >>] =>
                    ParamsText = <<"k", "e", "y", "=", "\"", "a", " ", "b", "\"">>

\* the binding of the example: priority 1, scheme https, ech=["asdf"]
C19_Witness ==
    /\ Converted
    /\ arg.Priority = 1
    /\ arg.Scheme = <<"h", "t", "t", "p", "s">>
    /\ arg.Params = [k \in {ECH} |-> << <<"a", "s", "d", "f">> >>]
    /\ res.Data = <<"1", " ", "t", ".", " ", "e", "c", "h", "=", "\"", "a", "s", "d", "f", "\"">>

(* C20: a key all of whose values are empty strings, whatever their number  *)
(* and whatever the key, ech included, is written as the bare key: no "=",  *)
(* no quotes and no separators.                                             *)
C20_ValuelessKeyIsBare ==
    Converted =>
        \A k \in DOMAIN arg.Params :
            AllEmpty(arg.Params[k]) =>
                /\ Encoded(k) = k
                /\ (arg.Priority # 0 /\ Len(arg.Range) = 1) => ParamsText = k

----------------------------------------------------------------------------
(* makeLDRecHash applied to the absolutized input: the record lists below   *)
(* include names and types that contain the separator ":" of key. arg is    *)
(* the input list, res the absolutized records and their grouping.          *)
MaxKeyRecs == 2

KeyNames == {<<"1">>, <<"1", ".", "z", ".", ":", "x">>}
KeyTypes == {<<"N", "S">>, <<"x", ".", "z", ".", ":", "N", "S">>}
KeyData == {<<"a">>, <<"b">>}

KeyRecords == [Name : KeyNames, Type : KeyTypes, Data : KeyData, TTL : {1 * Second}]

KeyLists == SeqsUpTo(KeyRecords, MaxKeyRecs)

InitGroup ==
    /\ zone = <<>>
    /\ c = NilClient
    /\ call = [p \in Procs |-> IdleCall]
    /\ last = [p \in Procs |-> NoCall]
    /\ ncalls = 0
    /\ mu = "free"
    /\ cpc = [p \in Procs |-> "out"]
    /\ built = 0
    /\ handle = [p \in Procs |-> NilClient]
    /\ arg \in KeyLists
    /\ res = <<>>

MakeLDRecHash ==
    /\ res = <<>>
    /\ LET absRecords == convertNamesToAbsolute(ZoneName, arg)
       IN  res' = [absRecords |-> absRecords, recHash |-> makeLDRecHash(absRecords)]
    /\ UNCHANGED <<zone, c, call, last, ncalls, lockVars, arg>>

NextGroup == MakeLDRecHash

SpecGroup == InitGroup /\ [][NextGroup]_vars

(* C21: the grouping partitions the absolutized input by (name, type):      *)
(* every record is in exactly one group, two records are in the same group  *)
(* if and only if they have the same name and the same type, and each group *)
(* holds its records in input order.                                        *)
C21_GroupsPartitionByNameAndType ==
    res # <<>> =>
        LET abs == res.absRecords
            h == res.recHash
            GroupsOf(i) == {k \in DOMAIN h : abs[i] \in Range(h[k])}
        IN  /\ \A i \in 1..Len(abs) : Cardinality(GroupsOf(i)) = 1
            /\ \A i, j \in 1..Len(abs) :
                    (GroupsOf(i) = GroupsOf(j)) <=>
                        (abs[i].Name = abs[j].Name /\ abs[i].Type = abs[j].Type)
            /\ \A k \in DOMAIN h :
                    h[k] = Pick(abs, {i \in 1..Len(abs) : k \in GroupsOf(i)})

----------------------------------------------------------------------------
\* the indices of the input records given for the absolute (name, rrType)
IndicesFor(records, name, rrType) ==
    {i \in 1..Len(records) :
        /\ AbsoluteName(records[i].Name, ZoneName) = name
        /\ records[i].Type = rrType}

\* the TTL, in whole seconds, of the first input record given for (name, rrType)
FirstTTL(records, name, rrType) ==
    LET first == CHOOSE i \in IndicesFor(records, name, rrType) :
                    \A j \in IndicesFor(records, name, rrType) : i <= j
    IN  records[first].TTL \div Second

(* C22: in AppendRecords and SetRecords the TTL written for a group is the  *)
(* TTL, in whole seconds, of the first input record of the group; the TTLs  *)
(* of its later records are ignored. When the call has succeeded, the RRset *)
(* of each group has that TTL, whatever TTL it had before.                  *)
C22_GroupTTLIsFirstRecords ==
    \A p \in Procs :
        call[p].op \in {"append", "set"} =>
            /\ \A i \in 1..Len(call[p].writes) :
                LET w == call[p].writes[i]
                IN  /\ w.kind = "change"
                    /\ IndicesFor(call[p].records, w.Name, w.Type) # {}
                    /\ w.TTL = FirstTTL(call[p].records, w.Name, w.Type)
            /\ (call[p].status = "done" /\ call[p].err = "nil") =>
                \A pr \in PairsOf(call[p].records) :
                    /\ HasRRset(zone, pr[1], pr[2])
                    /\ TheRRset(zone, pr[1], pr[2]).TTL
                            = FirstTTL(call[p].records, pr[1], pr[2])

\* an append of two records with different TTLs to an existing RRset: the
\* RRset has the first record's TTL and still holds its earlier contents
C22_Witness ==
    \E p \in Procs :
        /\ Succeeded(call[p], "append")
        /\ Len(call[p].records) = 2
        /\ call[p].records[1].TTL \div Second # call[p].records[2].TTL \div Second
        /\ \E pr \in PairsOf(call[p].records) :
            /\ Cardinality(IndicesFor(call[p].records, pr[1], pr[2])) = 2
            /\ HasRRset(call[p].zone0, pr[1], pr[2])
            /\ TheRRset(call[p].zone0, pr[1], pr[2]).TTL
                    # call[p].records[1].TTL \div Second
            /\ TheRRset(zone, pr[1], pr[2]).TTL = call[p].records[1].TTL \div Second
            /\ TheRRset(call[p].zone0, pr[1], pr[2]).Records[1]
                    \in Range(TheRRset(zone, pr[1], pr[2]).Records)

----------------------------------------------------------------------------
\* the RRsets of z whose (name, type) is not among the pairs
Outside(z, pairs) == {r \in RRsetsOf(z) : <<r.Name, r.Type>> \notin pairs}

(* C23: a call sends requests only for (name, type) pairs of its            *)
(* absolutized input records and GetRecords sends none: at every point of a *)
(* call the RRsets of all other pairs are the ones the zone held when the   *)
(* call began, with their contents and TTL, and no other has appeared.      *)
C23_OnlyInputPairsWritten ==
    \A p \in SeqProcs :
        call[p].op # "none" =>
            /\ \A i \in 1..Len(call[p].writes) :
                <<call[p].writes[i].Name, call[p].writes[i].Type>>
                    \in PairsOf(call[p].records)
            /\ call[p].op = "get" => call[p].writes = <<>> /\ zone = call[p].zone0
            /\ Outside(zone, PairsOf(call[p].records))
                    = Outside(call[p].zone0, PairsOf(call[p].records))

\* an append for the name 2 to a zone holding only the RRset of the name 1:
\* that RRset is as before and the RRset of 2 is new
C23_Witness ==
    \E p \in SeqProcs :
        /\ Succeeded(call[p], "append")
        /\ Len(call[p].zone0) = 1
        /\ call[p].zone0[1].Name = AbsoluteName(<<"1">>, ZoneName)
        /\ PairsOf(call[p].records) = {<<AbsoluteName(<<"2">>, ZoneName), <<"N", "S">>>>}
        /\ Len(zone) = 2
        /\ call[p].zone0[1] \in RRsetsOf(zone)
        /\ HasRRset(zone, AbsoluteName(<<"2">>, ZoneName), <<"N", "S">>)

----------------------------------------------------------------------------
\* the request the loop body of the call cl sends for the key k when the
\* gateway accepts it; none for a group DeleteRecords skips
RequestOf(cl, k) ==
    LET recs == cl.recHash[k]
        existingRRset == findRRset(cl.fullZone, recs[1].Name, recs[1].Type)
    IN  IF cl.op = "append" THEN <<appendRequest(cl.fullZone, recs, TRUE)>>
        ELSE IF cl.op = "set" THEN <<setRequest(recs, TRUE)>>
        ELSE IF existingRRset = 0 THEN <<>>
        ELSE <<deleteRequest(cl.fullZone, existingRRset, recs, TRUE)>>

\* the requests of the call cl when the range over recHash yields the keys in
\* this order
RECURSIVE RequestsIn(_, _)
RequestsIn(cl, order) ==
    IF order = <<>> THEN <<>>
    ELSE RequestOf(cl, Head(order)) \o RequestsIn(cl, Tail(order))

(* C24: the groups of a call are processed in the order the range over the  *)
(* map yields them, which is unspecified. When AppendRecords, SetRecords or *)
(* DeleteRecords has succeeded, every group has been processed and the zone *)
(* holds the RRsets that processing the groups in any order gives from the  *)
(* zone the call began with; a call that failed has applied the requests it *)
(* sent before the failing one, which depends on the order.                 *)
C24_SuccessIsOrderIndependent ==
    \A p \in SeqProcs :
        call[p].op \in {"append", "set", "delete"} =>
            /\ (call[p].status = "done" /\ call[p].err = "nil") =>
                /\ call[p].pending = {}
                /\ \A order \in Perms(DOMAIN call[p].recHash) :
                    RRsetsOf(zone)
                        = RRsetsOf(ApplyAll(call[p].zone0, RequestsIn(call[p], order)))
            /\ call[p].err = "write" =>
                /\ zone = ApplyAll(call[p].zone0, call[p].writes)
                /\ \E order \in Perms(DOMAIN call[p].recHash) :
                    \E n \in 1..Len(RequestsIn(call[p], order)) :
                        /\ Len(call[p].writes) = n
                        /\ \A i \in 1..n :
                            /\ call[p].writes[i].Name = RequestsIn(call[p], order)[i].Name
                            /\ call[p].writes[i].Records
                                    = RequestsIn(call[p], order)[i].Records
                            /\ call[p].writes[i].ok = (i < n)

\* a successful call with two groups, each of which changed the zone
C24_Witness ==
    \E p \in SeqProcs :
        /\ call[p].op \in {"append", "set", "delete"}
        /\ call[p].status = "done" /\ call[p].err = "nil"
        /\ Cardinality(DOMAIN call[p].recHash) = 2
        /\ Len(call[p].writes) = 2
        /\ Apply(call[p].zone0, call[p].writes[1]) # call[p].zone0
        /\ Apply(call[p].zone0, call[p].writes[2]) # call[p].zone0
        /\ Apply(call[p].zone0, call[p].writes[1]) # zone
        /\ Apply(call[p].zone0, call[p].writes[2]) # zone

----------------------------------------------------------------------------
(* AppendRecords followed by DeleteRecords with the same records, as a      *)
(* function on zones: arg keeps the zone the server held before the append. *)
InitRoundTrip ==
    /\ zone \in InitZones
    /\ c = NilClient
    /\ call = [p \in Procs |-> IdleCall]
    /\ last = [p \in Procs |-> NoCall]
    /\ ncalls = 0
    /\ mu = "free"
    /\ cpc = [p \in Procs |-> "out"]
    /\ built = 0
    /\ handle = [p \in Procs |-> NilClient]
    /\ arg = zone
    /\ res = <<>>

NextRoundTrip ==
    \E p \in SeqProcs :
        \/ (ncalls = 0 /\ AppendRecords(p))
        \/ AppendGroup(p)
        \/ (ncalls = 1 /\ DeleteRecords(p))
        \/ DeleteGroup(p)
        \/ Return(p)

SpecRoundTrip == InitRoundTrip /\ [][NextRoundTrip]_vars

\* the content list of (name, rrType) in z, empty when z has no such RRset
ContentsIn(z, name, rrType) ==
    IF HasRRset(z, name, rrType) THEN TheRRset(z, name, rrType).Records ELSE <<>>

\* the contents z holds for the pairs of records have no canonical key twice
\* and none of the canonical keys records gives for the pair
Disjoint(z, records) ==
    \A pr \in PairsOf(records) :
        /\ NoCanonDuplicate(ContentsIn(z, pr[1], pr[2]))
        /\ \A x \in Range(ContentsIn(z, pr[1], pr[2])) :
            \A y \in Range(GivenFor(records, pr[1], pr[2])) : Canon(x) # Canon(y)

\* the delete of the round trip has succeeded, after the append had
RoundTripDone(p) ==
    /\ Succeeded(call[p], "delete")
    /\ last[p].op = "append" /\ last[p].err = "nil"
    /\ last[p].records = call[p].records

====
